---- MODULE Spec2Model ----
(***************************************************************************)
(* Model of main.py of JiraDependencyViewer: the sprint table loader       *)
(* (read_sprints), the dependency reader and parser                        *)
(* (read_task_dependencies, parse_tasks) and the straight-line script main *)
(* (sprint lookup, graph construction, edge classification, layout,        *)
(* console report).                                                        *)
(*                                                                         *)
(* A Python str is a sequence of one-character strings, so that            *)
(* str.replace, int(), sorted() and the CSV reader are computed on the     *)
(* characters.  A file is a record [status, text].                         *)
(***************************************************************************)
EXTENDS Integers, Sequences, FiniteSets, TLC

VARIABLES
    depFile,                 \* doc/Isblockedby.csv on disk
    sprintFile,              \* doc/Sprints.csv on disk
    pc,                      \* position of the running script
    content,                 \* main: content
    frame,                   \* parse_tasks: the locals tasks, dependencies of the last call
    tasks,                   \* main: tasks
    dependencies,            \* main: dependencies
    sprint_data,             \* main: sprint_data
    dependenciesWithSprints, \* main: dependenciesWithSprints
    task_sprint_map,         \* main: task_sprint_map
    G,                       \* main: the nx.DiGraph
    red_edges,               \* main: red_edges
    black_edges,             \* main: black_edges
    pos,                     \* main: pos (layout)
    figure,                  \* what has been drawn and shown
    printed,                 \* lines written to the console
    error,                   \* the exception that ended the run, or "none"
    second                   \* result of a second parse_tasks call on the same content

vars == <<depFile, sprintFile, pc, content, frame, tasks, dependencies, sprint_data,
          dependenciesWithSprints, task_sprint_map, G, red_edges, black_edges, pos,
          figure, printed, error, second>>

(***************************************************************************)
(* Bounds of the model.                                                    *)
(***************************************************************************)
\* rows of a dependency file drawn by Init
MaxDepRows == 2
\* characters of a raw dependency text drawn by InitParse
MaxContentLen == 5
\* |n| of the sprint numbers formatted by InitLabel
MaxSprintNum == 120

(***************************************************************************)
(* Python str helpers.                                                     *)
(***************************************************************************)
\* code point of a character, the order sorted() and str comparison use
Ord(c) ==
    CASE c = "\n" -> 10
      [] c = " " -> 32
      [] c = "+" -> 43
      [] c = "," -> 44
      [] c = "-" -> 45
      [] c = "0" -> 48
      [] c = "1" -> 49
      [] c = "2" -> 50
      [] c = "3" -> 51
      [] c = "4" -> 52
      [] c = "5" -> 53
      [] c = "6" -> 54
      [] c = "7" -> 55
      [] c = "8" -> 56
      [] c = "9" -> 57
      [] c = "A" -> 65
      [] c = "B" -> 66
      [] c = "P" -> 80
      [] c = "S" -> 83
      [] c = "X" -> 88
      [] c = "_" -> 95

RECURSIVE StrLess(_, _)
\* s < t for two Python strings (lexicographic on code points)
StrLess(s, t) ==
    IF t = <<>> THEN FALSE
    ELSE IF s = <<>> THEN TRUE
    ELSE IF Ord(Head(s)) # Ord(Head(t)) THEN Ord(Head(s)) < Ord(Head(t))
    ELSE StrLess(Tail(s), Tail(t))

RECURSIVE SortedStrs(_)
\* sorted(list(S)) for a set S of strings
SortedStrs(S) ==
    IF S = {} THEN <<>>
    ELSE LET m == CHOOSE x \in S : \A y \in S : y = x \/ StrLess(x, y)
         IN  <<m>> \o SortedStrs(S \ {m})

RECURSIVE SortedInts(_)
\* sorted(list(S)) for a set S of integers
SortedInts(S) ==
    IF S = {} THEN <<>>
    ELSE LET m == CHOOSE x \in S : \A y \in S : x <= y
         IN  <<m>> \o SortedInts(S \ {m})

RECURSIVE Replace(_, _)
\* s.replace(old, ""): every non-overlapping occurrence of old removed, left to right
Replace(s, old) ==
    IF s = <<>> THEN <<>>
    ELSE IF Len(s) >= Len(old) /\ SubSeq(s, 1, Len(old)) = old
         THEN Replace(SubSeq(s, Len(old) + 1, Len(s)), old)
         ELSE <<Head(s)>> \o Replace(Tail(s), old)

DigitChars == <<"0", "1", "2", "3", "4", "5", "6", "7", "8", "9">>

IsDigit(c) == \E i \in 1..10 : DigitChars[i] = c

DigitVal(c) == (CHOOSE i \in 1..10 : DigitChars[i] = c) - 1

RECURSIVE Strip(_)
\* s.strip() for the blank characters of the model ("\n" and " ")
Strip(s) ==
    IF s = <<>> THEN <<>>
    ELSE IF Head(s) \in {" ", "\n"} THEN Strip(Tail(s))
    ELSE IF s[Len(s)] \in {" ", "\n"} THEN Strip(SubSeq(s, 1, Len(s) - 1))
    ELSE s

RECURSIVE DigitsValue(_, _)
\* value of a well-formed digit string (underscores skipped), acc the value so far
DigitsValue(s, acc) ==
    IF s = <<>> THEN acc
    ELSE IF Head(s) = "_" THEN DigitsValue(Tail(s), acc)
    ELSE DigitsValue(Tail(s), 10 * acc + DigitVal(Head(s)))

\* the digit part int() accepts: digits, single underscores only between digits
WellFormedDigits(s) ==
    /\ s # <<>>
    /\ \A i \in 1..Len(s) : IsDigit(s[i]) \/ s[i] = "_"
    /\ IsDigit(s[1]) /\ IsDigit(s[Len(s)])
    /\ \A i \in 1..(Len(s) - 1) : ~(s[i] = "_" /\ s[i + 1] = "_")

\* int(s) with the sign dropped
ParseIntUnsigned(s) ==
    LET t == Strip(s)
        signed == t # <<>> /\ Head(t) \in {"+", "-"}
        d == IF signed THEN Tail(t) ELSE t
    IN  IF WellFormedDigits(d)
        THEN [ok |-> TRUE, val |-> DigitsValue(d, 0)]
        ELSE [ok |-> FALSE, val |-> 0]

\* int(s): [ok |-> TRUE, val |-> n], or ok = FALSE where Python raises ValueError
ParseInt(s) ==
    LET t == Strip(s)
        signed == t # <<>> /\ Head(t) \in {"+", "-"}
        d == IF signed THEN Tail(t) ELSE t
    IN  IF WellFormedDigits(d)
        THEN [ok |-> TRUE,
              val |-> IF signed /\ Head(t) = "-" THEN 0 - DigitsValue(d, 0)
                      ELSE DigitsValue(d, 0)]
        ELSE [ok |-> FALSE, val |-> 0]

(***************************************************************************)
(* csv.reader over a text (no quote character occurs in the model's        *)
(* alphabet): one row per line, a blank line is the empty row, the text    *)
(* after the last newline is a row only when it is not empty.              *)
(***************************************************************************)
RECURSIVE SplitOn(_, _, _)
\* the pieces of s between occurrences of sep; cur is the piece being read
SplitOn(s, sep, cur) ==
    IF s = <<>> THEN <<cur>>
    ELSE IF Head(s) = sep THEN <<cur>> \o SplitOn(Tail(s), sep, <<>>)
    ELSE SplitOn(Tail(s), sep, Append(cur, Head(s)))

\* the lines a text file object iterates over
Lines(text) ==
    LET pieces == SplitOn(text, "\n", <<>>)
    IN  IF pieces[Len(pieces)] = <<>> THEN SubSeq(pieces, 1, Len(pieces) - 1)
        ELSE pieces

\* one csv row from one line
CsvRow(line) == IF line = <<>> THEN <<>> ELSE SplitOn(line, ",", <<>>)

csv_reader(text) == [i \in 1..Len(Lines(text)) |-> CsvRow(Lines(text)[i])]

(***************************************************************************)
(* read_sprints (lines 9-20).  A dict is a function on its key set.        *)
(***************************************************************************)
SP == <<"S", "P">>

EmptyDict == [k \in {} |-> 0]

SeqHas(s, x) == \E i \in 1..Len(s) : s[i] = x

\* d[k] = v
DictSet(d, k, v) == [x \in (DOMAIN d) \cup {k} |-> IF x = k THEN v ELSE d[x]]

\* d.get(k, default)
DictGet(d, k, default) == IF k \in DOMAIN d THEN d[k] ELSE default

\* lines 15-19: one row of the sprint CSV applied to [error, map]
SprintRow(acc, row) ==
    IF acc.error # "none" THEN acc
    ELSE IF Len(row) >= 2
    THEN IF Len(row) # 2
         THEN [acc EXCEPT !.error = "ValueError"]       \* task_id, sprint = row
         ELSE LET task_id == row[1]
                  sprint == row[2]
                  sprint_num == ParseInt(Replace(sprint, SP))
              IN  IF ~sprint_num.ok
                  THEN [acc EXCEPT !.error = "ValueError"]   \* int(...)
                  ELSE [acc EXCEPT !.map =
                           DictSet(acc.map, task_id, <<sprint, sprint_num.val>>)]
    ELSE acc

RECURSIVE SprintRows(_, _)
\* line 14: for row in csv_reader
SprintRows(acc, rows) ==
    IF rows = <<>> THEN acc
    ELSE SprintRows(SprintRow(acc, Head(rows)), Tail(rows))

\* read_sprints with its failures caught: the rows read so far are returned
read_sprints_swallowing(file) ==
    IF file.status # "ok" THEN [error |-> "none", map |-> EmptyDict]
    ELSE [error |-> "none",
          map |-> SprintRows([error |-> "none", map |-> EmptyDict],
                             csv_reader(file.text)).map]

\* read_sprints(file_path): [error, map]; map is returned only when error = "none"
read_sprints(file) ==
    IF file.status = "missing" THEN [error |-> "FileNotFoundError", map |-> EmptyDict]
    ELSE IF file.status = "unreadable" THEN [error |-> "OSError", map |-> EmptyDict]
    ELSE SprintRows([error |-> "none", map |-> EmptyDict], csv_reader(file.text))

(***************************************************************************)
(* read_task_dependencies (lines 23-33): [error, text, out].               *)
(***************************************************************************)
\* read_task_dependencies without its try/except
read_task_dependencies_raising(file) ==
    IF file.status = "ok"
    THEN [error |-> "none", text |-> file.text, out |-> <<>>]
    ELSE IF file.status = "missing"
    THEN [error |-> "FileNotFoundError", text |-> <<>>, out |-> <<>>]
    ELSE [error |-> "OSError", text |-> <<>>, out |-> <<>>]

read_task_dependencies(file) ==
    IF file.status = "ok"
    THEN [error |-> "none", text |-> file.text, out |-> <<>>]
    ELSE IF file.status = "missing"
    THEN [error |-> "none", text |-> <<>>, out |-> <<[kind |-> "file not found"]>>]
    ELSE [error |-> "none", text |-> <<>>, out |-> <<[kind |-> "error reading file"]>>]

(***************************************************************************)
(* parse_tasks (lines 36-54).  A frame holds the locals tasks and          *)
(* dependencies of one call.                                               *)
(***************************************************************************)
\* locals that outlive the call (a module-level or default-argument list)
StaleFrame(prev) == prev

\* lines 39-40: the locals a call starts from (prev: the frame of the call before)
NewFrame(prev) == [tasks |-> {}, dependencies |-> <<>>]

\* lines 49-53 with a pair already recorded not recorded again
ParseFieldDedup(fr, blocked_task, blocking_task) ==
    IF blocking_task # <<>>
       /\ ~\E i \in 1..Len(fr.dependencies) :
              fr.dependencies[i] = <<blocking_task, blocked_task>>
    THEN [tasks |-> fr.tasks \cup {blocking_task, blocked_task},
          dependencies |-> Append(fr.dependencies, <<blocking_task, blocked_task>>)]
    ELSE fr

\* lines 49-53: one blocking field of a row
ParseField(fr, blocked_task, blocking_task) ==
    IF blocking_task # <<>>
    THEN [tasks |-> fr.tasks \cup {blocking_task, blocked_task},
          dependencies |-> Append(fr.dependencies, <<blocking_task, blocked_task>>)]
    ELSE fr

RECURSIVE ParseFields(_, _, _)
\* line 48: for blocking_task in row[1:]
ParseFields(fr, blocked_task, fields) ==
    IF fields = <<>> THEN fr
    ELSE ParseFields(ParseField(fr, blocked_task, Head(fields)), blocked_task, Tail(fields))

\* lines 44-48: one row
ParseRow(fr, row) ==
    IF row = <<>> THEN fr
    ELSE ParseFields(fr, row[1], Tail(row))

RECURSIVE ParseRows(_, _)
\* line 42: for row in csv_reader
ParseRows(fr, rows) ==
    IF rows = <<>> THEN fr
    ELSE ParseRows(ParseRow(fr, Head(rows)), Tail(rows))

\* the frame of a call parse_tasks(text) made after a call that left frame prev
parse_tasks(prev, text) == ParseRows(NewFrame(prev), csv_reader(text))

\* line 54: the returned pair
ParseResult(fr) == [tasks |-> SortedStrs(fr.tasks), dependencies |-> fr.dependencies]

(***************************************************************************)
(* main (lines 56-140).                                                    *)
(***************************************************************************)
\* "Future Implementation" (line 68)
FutureLabel ==
    <<"F", "u", "t", "u", "r", "e", " ", "I", "m", "p", "l", "e", "m", "e", "n", "t",
      "a", "t", "i", "o", "n">>

\* the sprint number given to a task without a sprint record (line 68)
FutureSprintNum == 999

\* the default of the lookups of lines 80-81 and 136-137
MissingSprintNum == -1

RECURSIVE SprintLookup(_, _, _)
\* lines 64-70: [list |-> dependenciesWithSprints, map |-> task_sprint_map]
SprintLookup(acc, ts, data) ==
    IF ts = <<>> THEN acc
    ELSE LET task == Head(ts)
             rec == IF task \in DOMAIN data THEN data[task]
                    ELSE <<FutureLabel, FutureSprintNum>>
         IN  SprintLookup([list |-> Append(acc.list, <<task, rec[1], rec[2]>>),
                           map |-> DictSet(acc.map, task, rec[2])],
                          Tail(ts), data)

EmptyGraph == [nodes |-> <<>>, adj |-> EmptyDict]

\* DiGraph.add_node
AddNode(g, n) ==
    IF SeqHas(g.nodes, n) THEN g
    ELSE [nodes |-> Append(g.nodes, n), adj |-> DictSet(g.adj, n, <<>>)]

\* add_edge that leaves out an edge from a node to itself
AddEdgeNoSelfLoop(g, e) ==
    IF e[1] = e[2] THEN g
    ELSE LET g2 == AddNode(AddNode(g, e[1]), e[2])
         IN  IF SeqHas(g2.adj[e[1]], e[2]) THEN g2
             ELSE [g2 EXCEPT !.adj[e[1]] = Append(@, e[2])]

\* DiGraph.add_edge: both endpoints become nodes, a repeated edge is kept once
AddEdge(g, e) ==
    LET g2 == AddNode(AddNode(g, e[1]), e[2])
    IN  IF SeqHas(g2.adj[e[1]], e[2]) THEN g2
        ELSE [g2 EXCEPT !.adj[e[1]] = Append(@, e[2])]

RECURSIVE AddEdgesFrom(_, _)
\* line 74: G.add_edges_from(dependencies)
AddEdgesFrom(g, es) ==
    IF es = <<>> THEN g
    ELSE AddEdgesFrom(AddEdge(g, Head(es)), Tail(es))

RECURSIVE EdgesOfNodes(_, _)
EdgesOfNodes(g, ns) ==
    IF ns = <<>> THEN <<>>
    ELSE [i \in 1..Len(g.adj[Head(ns)]) |-> <<Head(ns), g.adj[Head(ns)][i]>>]
         \o EdgesOfNodes(g, Tail(ns))

\* G.edges(): by source in node order, then by target in insertion order
Edges(g) == EdgesOfNodes(g, g.nodes)

\* line 82: the test that puts an edge in red_edges
IsRed(source_sprint, target_sprint) ==
    target_sprint # MissingSprintNum /\ source_sprint > target_sprint

RECURSIVE Classify(_, _, _)
\* lines 77-85: [red, black]
Classify(acc, es, tsm) ==
    IF es = <<>> THEN acc
    ELSE LET source == Head(es)[1]
             target == Head(es)[2]
             source_sprint == DictGet(tsm, source, MissingSprintNum)
             target_sprint == DictGet(tsm, target, MissingSprintNum)
         IN  Classify(IF IsRed(source_sprint, target_sprint)
                      THEN [acc EXCEPT !.red = Append(@, <<source, target>>)]
                      ELSE [acc EXCEPT !.black = Append(@, <<source, target>>)],
                      Tail(es), tsm)

(***************************************************************************)
(* Layout (lines 91-107).  An insertion-ordered dict of lists is a         *)
(* sequence of [key, val] records; y is kept doubled (2*y = 2*i - len).    *)
(***************************************************************************)
IndexOf(s, x) == CHOOSE i \in 1..Len(s) : s[i] = x

\* line 92: all_sprints
AllSprints(tsm) == SortedInts({tsm[t] : t \in DOMAIN tsm})

\* line 93: sprint_to_x[sprint]
SprintToX(tsm, sprint) == IndexOf(AllSprints(tsm), sprint) - 1

\* lines 98-100: one task appended to its sprint's list
GroupAdd(groups, task, sprint_num) ==
    IF \E i \in 1..Len(groups) : groups[i].key = sprint_num
    THEN LET i == CHOOSE j \in 1..Len(groups) : groups[j].key = sprint_num
         IN  [groups EXCEPT ![i].val = Append(@, task)]
    ELSE Append(groups, [key |-> sprint_num, val |-> <<task>>])

RECURSIVE TasksBySprint(_, _)
\* lines 96-100: task_sprint_map.items() comes in the order of dependenciesWithSprints
TasksBySprint(groups, dws) ==
    IF dws = <<>> THEN groups
    ELSE TasksBySprint(GroupAdd(groups, Head(dws)[1], Head(dws)[3]), Tail(dws))

\* lines 103-107: pos[task] = (x, y), for the task at index i (from 1) of a group
Positions(groups, tsm) ==
    [task \in DOMAIN tsm |->
        LET g == CHOOSE j \in 1..Len(groups) : SeqHas(groups[j].val, task)
            grp == groups[g]
        IN  <<SprintToX(tsm, grp.key),
              2 * (IndexOf(grp.val, task) - 1) - Len(grp.val)>>]

(***************************************************************************)
(* Rendering (lines 110-129) and the console report (lines 132-140).       *)
(***************************************************************************)
NoFigure ==
    [shown |-> FALSE, black |-> <<>>, red |-> <<>>, nodes |-> <<>>,
     edge_labels |-> {}, annotations |-> <<>>]

SeqToSet(s) == {s[i] : i \in 1..Len(s)}

\* lines 126-128: (task, sprint label) for every task that has a position
Annotations(dws, p) ==
    LET keep(d) == d[1] \in DOMAIN p
        kept == SelectSeq(dws, keep)
    IN  [i \in 1..Len(kept) |-> <<kept[i][1], kept[i][2]>>]

\* lines 136-137: sprint_data.get(task, ("Future Implementation", -1))[0]
ReportLabel(data, task) == DictGet(data, task, <<FutureLabel, MissingSprintNum>>)[1]

\* lines 132-140
Report(red, data) ==
    IF red # <<>>
    THEN <<[kind |-> "header"]>> \o
         [i \in 1..Len(red) |->
            [kind |-> "edge",
             target |-> red[i][2], target_sprint |-> ReportLabel(data, red[i][2]),
             source |-> red[i][1], source_sprint |-> ReportLabel(data, red[i][1])]]
    ELSE <<[kind |-> "no problematic dependencies"]>>

(***************************************************************************)
(* The script, one action per step of main.                                *)
(***************************************************************************)
\* line 57
ReadDeps ==
    /\ pc = "read_deps"
    /\ LET r == read_task_dependencies(depFile)
       IN  /\ error' = r.error
           /\ content' = r.text
           /\ printed' = printed \o r.out
           /\ pc' = IF r.error = "none" THEN "parse" ELSE "aborted"
    /\ UNCHANGED <<depFile, sprintFile, frame, tasks, dependencies, sprint_data,
                   dependenciesWithSprints, task_sprint_map, G, red_edges, black_edges,
                   pos, figure, second>>

\* line 58
ParseTasks ==
    /\ pc = "parse"
    /\ LET fr == parse_tasks(frame, content)
       IN  /\ frame' = fr
           /\ tasks' = ParseResult(fr).tasks
           /\ dependencies' = ParseResult(fr).dependencies
    /\ pc' = "read_sprints"
    /\ UNCHANGED <<depFile, sprintFile, content, sprint_data, dependenciesWithSprints,
                   task_sprint_map, G, red_edges, black_edges, pos, figure, printed,
                   error, second>>

\* parse_tasks applied once more to the same content
ParseAgain ==
    /\ pc = "read_sprints"
    /\ second.calls = 0
    /\ LET fr == parse_tasks(frame, content)
       IN  /\ frame' = fr
           /\ second' = [calls |-> 1, tasks |-> ParseResult(fr).tasks,
                         dependencies |-> ParseResult(fr).dependencies]
    /\ UNCHANGED <<depFile, sprintFile, pc, content, tasks, dependencies, sprint_data,
                   dependenciesWithSprints, task_sprint_map, G, red_edges, black_edges,
                   pos, figure, printed, error>>

\* line 59: an exception of read_sprints ends the run
ReadSprints ==
    /\ pc = "read_sprints"
    /\ LET r == read_sprints(sprintFile)
       IN  /\ error' = r.error
           /\ sprint_data' = IF r.error = "none" THEN r.map ELSE sprint_data
           /\ pc' = IF r.error = "none" THEN "lookup" ELSE "aborted"
    /\ UNCHANGED <<depFile, sprintFile, content, frame, tasks, dependencies,
                   dependenciesWithSprints, task_sprint_map, G, red_edges, black_edges,
                   pos, figure, printed, second>>

\* lines 61-70
LookupSprints ==
    /\ pc = "lookup"
    /\ LET r == SprintLookup([list |-> <<>>, map |-> EmptyDict], tasks, sprint_data)
       IN  /\ dependenciesWithSprints' = r.list
           /\ task_sprint_map' = r.map
    /\ pc' = "graph"
    /\ UNCHANGED <<depFile, sprintFile, content, frame, tasks, dependencies, sprint_data,
                   G, red_edges, black_edges, pos, figure, printed, error, second>>

\* lines 73-74
BuildGraph ==
    /\ pc = "graph"
    /\ G' = AddEdgesFrom(EmptyGraph, dependencies)
    /\ pc' = "classify"
    /\ UNCHANGED <<depFile, sprintFile, content, frame, tasks, dependencies, sprint_data,
                   dependenciesWithSprints, task_sprint_map, red_edges, black_edges, pos,
                   figure, printed, error, second>>

\* lines 77-85
ClassifyEdges ==
    /\ pc = "classify"
    /\ LET r == Classify([red |-> <<>>, black |-> <<>>], Edges(G), task_sprint_map)
       IN  /\ red_edges' = r.red
           /\ black_edges' = r.black
    /\ pc' = "layout"
    /\ UNCHANGED <<depFile, sprintFile, content, frame, tasks, dependencies, sprint_data,
                   dependenciesWithSprints, task_sprint_map, G, pos, figure, printed,
                   error, second>>

\* lines 91-107; the loop of line 103 rebinds the name tasks to each group's list
Layout ==
    /\ pc = "layout"
    /\ LET groups == TasksBySprint(<<>>, dependenciesWithSprints)
       IN  /\ pos' = Positions(groups, task_sprint_map)
           /\ tasks' = IF groups = <<>> THEN tasks ELSE groups[Len(groups)].val
    /\ pc' = "render"
    /\ UNCHANGED <<depFile, sprintFile, content, frame, dependencies, sprint_data,
                   dependenciesWithSprints, task_sprint_map, G, red_edges, black_edges,
                   figure, printed, error, second>>

\* lines 110-129
Render ==
    /\ pc = "render"
    /\ figure' = [shown |-> TRUE, black |-> black_edges, red |-> red_edges,
                  nodes |-> G.nodes, edge_labels |-> SeqToSet(red_edges),
                  annotations |-> Annotations(dependenciesWithSprints, pos)]
    /\ pc' = "report"
    /\ UNCHANGED <<depFile, sprintFile, content, frame, tasks, dependencies, sprint_data,
                   dependenciesWithSprints, task_sprint_map, G, red_edges, black_edges,
                   pos, printed, error, second>>

\* lines 132-140
PrintReport ==
    /\ pc = "report"
    /\ printed' = printed \o Report(red_edges, sprint_data)
    /\ pc' = "done"
    /\ UNCHANGED <<depFile, sprintFile, content, frame, tasks, dependencies, sprint_data,
                   dependenciesWithSprints, task_sprint_map, G, red_edges, black_edges,
                   pos, figure, error, second>>

(***************************************************************************)
(* The files a run may find on disk.                                       *)
(***************************************************************************)
Names == {<<"A">>, <<"B">>}

RECURSIVE FormatNat(_)
\* str(n) for n >= 0
FormatNat(n) ==
    IF n < 10 THEN <<DigitChars[n + 1]>>
    ELSE FormatNat(n \div 10) \o <<DigitChars[(n % 10) + 1]>>

\* str(n)
FormatInt(n) == IF n < 0 THEN <<"-">> \o FormatNat(0 - n) ELSE FormatNat(n)

\* the sprint label "SP<n>"
SprintLabel(n) == SP \o FormatInt(n)

RECURSIVE JoinFields(_)
JoinFields(row) ==
    IF row = <<>> THEN <<>>
    ELSE IF Len(row) = 1 THEN row[1]
    ELSE row[1] \o <<",">> \o JoinFields(Tail(row))

RECURSIVE JoinCsv(_)
\* the CSV text of a list of rows, one line per row
JoinCsv(rows) ==
    IF rows = <<>> THEN <<>>
    ELSE JoinFields(Head(rows)) \o <<"\n">> \o JoinCsv(Tail(rows))

SeqsUpTo(S, n) == UNION {[1..k -> S] : k \in 0..n}

OkFile(text) == [status |-> "ok", text |-> text]

NoFiles == {[status |-> "missing", text |-> <<>>], [status |-> "unreadable", text |-> <<>>]}

\* rows of the dependency CSV: empty, a task alone, a task and one blocking field
DepRowSet ==
    {<<>>} \cup {<<a>> : a \in Names} \cup {<<a, b>> : a \in Names, b \in Names \cup {<<>>}}

DepFiles == NoFiles \cup {OkFile(JoinCsv(rows)) : rows \in SeqsUpTo(DepRowSet, MaxDepRows)}

\* sprint labels of the sprint CSV: SP1, SP2, SP999, SP1000 and the malformed SPX
SprintLabels ==
    {SprintLabel(1), SprintLabel(2), SprintLabel(FutureSprintNum),
     SprintLabel(FutureSprintNum + 1), SP \o <<"X">>}

\* what the sprint CSV holds for task t: nothing, or one row of 1, 2 or 3 fields
SprintRowsFor(t) ==
    {<<>>, << <<t>> >>, << <<t, SprintLabel(1), SprintLabel(1)>> >>}
    \cup {<< <<t, l>> >> : l \in SprintLabels}

SprintFiles ==
    NoFiles \cup {OkFile(JoinCsv(ra \o rb)) :
                     ra \in SprintRowsFor(<<"A">>), rb \in SprintRowsFor(<<"B">>)}

(***************************************************************************)
(* Specification of a run of main.                                         *)
(***************************************************************************)
NoFrame == [tasks |-> {}, dependencies |-> <<>>]

NoSecond == [calls |-> 0, tasks |-> <<>>, dependencies |-> <<>>]

\* the program's variables other than content before main's first statement
FreshRest ==
    /\ frame = NoFrame
    /\ tasks = <<>>
    /\ dependencies = <<>>
    /\ sprint_data = EmptyDict
    /\ dependenciesWithSprints = <<>>
    /\ task_sprint_map = EmptyDict
    /\ G = EmptyGraph
    /\ red_edges = <<>>
    /\ black_edges = <<>>
    /\ pos = EmptyDict
    /\ figure = NoFigure
    /\ printed = <<>>
    /\ error = "none"
    /\ second = NoSecond

Fresh == content = <<>> /\ FreshRest

Init ==
    /\ depFile \in DepFiles
    /\ sprintFile \in SprintFiles
    /\ pc = "read_deps"
    /\ Fresh

Next ==
    \/ ReadDeps
    \/ ParseTasks
    \/ ReadSprints
    \/ LookupSprints
    \/ BuildGraph
    \/ ClassifyEdges
    \/ Layout
    \/ Render
    \/ PrintReport

Spec == Init /\ [][Next]_vars

(***************************************************************************)
(* Specification of parse_tasks alone: any text over the alphabet, parsed  *)
(* and then parsed again.                                                  *)
(***************************************************************************)
ParseAlphabet == {"A", "B", ",", "\n"}

InitParse ==
    /\ depFile \in {OkFile(t) : t \in SeqsUpTo(ParseAlphabet, MaxContentLen)}
    /\ sprintFile = OkFile(<<>>)
    /\ pc = "parse"
    /\ content = depFile.text
    /\ FreshRest

NextParse == ParseTasks \/ ParseAgain

SpecParse == InitParse /\ [][NextParse]_vars

(***************************************************************************)
(* Specification of read_sprints alone on one row (task, "SP<n>").         *)
(***************************************************************************)
InitLabel ==
    /\ depFile = OkFile(<<>>)
    /\ sprintFile \in {OkFile(JoinCsv(<< <<t, SprintLabel(n)>> >>)) :
                          t \in Names, n \in (0 - MaxSprintNum)..MaxSprintNum}
    /\ pc = "read_sprints"
    /\ Fresh

NextLabel == ReadSprints

SpecLabel == InitLabel /\ [][NextLabel]_vars

(***************************************************************************)
(* Vocabulary of the properties.                                           *)
(***************************************************************************)
BeforeSprints == {"read_deps", "parse", "read_sprints"}

\* main has run the classification loop
Classified == pc \in {"layout", "render", "report", "done"}

\* main has built task_sprint_map
LookedUp == pc \in {"graph", "classify"} \/ Classified

\* main has built G
GraphBuilt == pc = "classify" \/ Classified

HasRecord(t) == t \in DOMAIN sprint_data

\* the rows of the two files as csv.reader yields them
DepRowsOnDisk == IF depFile.status = "ok" THEN csv_reader(depFile.text) ELSE <<>>

SprintRowsOnDisk == IF sprintFile.status = "ok" THEN csv_reader(sprintFile.text) ELSE <<>>

Endpoints(es) == {es[i][1] : i \in 1..Len(es)} \cup {es[i][2] : i \in 1..Len(es)}

\* a line of the violation report (lines 132-140) is on the console
Reported ==
    \E i \in 1..Len(printed) :
        printed[i].kind \in {"header", "edge", "no problematic dependencies"}

(***************************************************************************)
(* C1: every edge of the graph is in red_edges exactly when both endpoints *)
(* have a sprint record and the source's sprint index is strictly greater  *)
(* than the target's; every other edge is in black_edges.  The code        *)
(* violates it: a source without a record carries 999 and is compared.     *)
(***************************************************************************)
C1_RedIffBothKnownAndLater ==
    Classified =>
        \A e \in SeqToSet(Edges(G)) :
            LET violating == /\ HasRecord(e[1])
                             /\ HasRecord(e[2])
                             /\ sprint_data[e[1]][2] > sprint_data[e[2]][2]
            IN  /\ SeqHas(red_edges, e) <=> violating
                /\ SeqHas(black_edges, e) <=> ~violating

(***************************************************************************)
(* C2: every parsed task without a sprint record gets the sentinel index,  *)
(* and no edge with such a task as source or target is in red_edges.  The  *)
(* code violates the second half.                                          *)
(***************************************************************************)
C2_UnassignedNeverViolates ==
    /\ LookedUp =>
          \A t \in DOMAIN task_sprint_map :
              ~HasRecord(t) => task_sprint_map[t] = FutureSprintNum
    /\ Classified =>
          \A i \in 1..Len(red_edges) :
              HasRecord(red_edges[i][1]) /\ HasRecord(red_edges[i][2])

(***************************************************************************)
(* C3: with the dependency file missing or unreadable,                     *)
(* read_task_dependencies raises nothing and returns "", parse_tasks       *)
(* yields no task and no edge, the graph is empty, no edge is red, and     *)
(* when read_sprints loads the sprint file the run goes on to its end and  *)
(* reports that no problematic dependencies were found.                    *)
(***************************************************************************)
C3_MissingDependencyFileIsEmptyDataset ==
    depFile.status # "ok" =>
        /\ pc # "read_deps" => content = <<>>
        /\ pc = "parse" => error = "none"
        /\ frame.tasks = {} /\ tasks = <<>> /\ dependencies = <<>>
        /\ G = EmptyGraph
        /\ red_edges = <<>> /\ black_edges = <<>>
        /\ read_sprints(sprintFile).error = "none" =>
              /\ pc # "aborted"
              /\ pc = "done" =>
                    printed[Len(printed)] = [kind |-> "no problematic dependencies"]

C3_Witness ==
    /\ depFile.status = "missing"
    /\ pc = "done"
    /\ DOMAIN sprint_data # {}
    /\ printed = <<[kind |-> "file not found"], [kind |-> "no problematic dependencies"]>>

(***************************************************************************)
(* C4: a missing (or unreadable) sprint file, or a sprint row whose label  *)
(* int() rejects once "SP" is removed, is never recovered: read_sprints    *)
(* raises and returns no mapping, the run ends with that error, and no     *)
(* edge is classified, no figure shown and no violation report printed;    *)
(* those steps run only after the sprint table was loaded without error.   *)
(***************************************************************************)
MalformedLabel(label) == ~ParseInt(Replace(label, SP)).ok

BadSprintFile ==
    \/ sprintFile.status # "ok"
    \/ \E i \in 1..Len(SprintRowsOnDisk) :
          Len(SprintRowsOnDisk[i]) >= 2 /\ MalformedLabel(SprintRowsOnDisk[i][2])

TwoFieldRows(rows) == LET two(r) == Len(r) = 2 IN SelectSeq(rows, two)

\* C5: rows of other than two fields raise nothing and change no entry
C5_WrongArityRowsSkipped ==
    (/\ pc \notin BeforeSprints
     /\ sprintFile.status = "ok"
     /\ \A i \in 1..Len(SprintRowsOnDisk) :
           Len(SprintRowsOnDisk[i]) = 2 => ~MalformedLabel(SprintRowsOnDisk[i][2]))
    => /\ error = "none"
       /\ sprint_data = read_sprints(OkFile(JoinCsv(TwoFieldRows(SprintRowsOnDisk)))).map

(***************************************************************************)
(* C6: parse_tasks returns a task list that is sorted, without duplicates, *)
(* and exactly the endpoints of the returned edges; and an edge list with  *)
(* one entry (blocking, blocked) per non-empty field after the first of    *)
(* each non-empty row, pointing to the row's first field, in input order,  *)
(* repeated pairs kept.                                                    *)
(***************************************************************************)
\* the edges one row stands for
RowEdges(row) ==
    IF row = <<>> THEN <<>>
    ELSE LET nonEmpty(f) == f # <<>>
             blocking == SelectSeq(Tail(row), nonEmpty)
         IN  [i \in 1..Len(blocking) |-> <<blocking[i], row[1]>>]

RECURSIVE RowsEdges(_)
RowsEdges(rows) ==
    IF rows = <<>> THEN <<>> ELSE RowEdges(Head(rows)) \o RowsEdges(Tail(rows))

\* C6: tasks sorted, unique, the edges' endpoints; edges as the rows give them
C6_ParseTasksOutput ==
    pc = "read_sprints" =>
        /\ \A i \in 1..(Len(tasks) - 1) : StrLess(tasks[i], tasks[i + 1])
        /\ SeqToSet(tasks) = Endpoints(dependencies)
        /\ dependencies = RowsEdges(csv_reader(content))

C6_Witness ==
    /\ pc = "read_sprints"
    /\ Len(dependencies) = 2
    /\ dependencies[1] = dependencies[2]
    /\ Len(tasks) = 2

(***************************************************************************)
(* C7: a sprint row (task, "SP" followed by the decimal form of n) makes   *)
(* read_sprints record (label, n) for the task: the parsed index is n and  *)
(* the stored label is the label as written.                               *)
(***************************************************************************)
C7_LabelRoundTrip ==
    \A t \in Names, n \in (0 - MaxSprintNum)..MaxSprintNum :
        (/\ pc # "read_sprints"
         /\ sprintFile.text = JoinCsv(<< <<t, SprintLabel(n)>> >>))
        => /\ error = "none"
           /\ DOMAIN sprint_data = {t}
           /\ sprint_data[t] = <<SprintLabel(n), n>>

C7_Witness ==
    /\ pc = "lookup"
    /\ \E t \in DOMAIN sprint_data :
          /\ sprint_data[t][2] < -99
          /\ sprint_data[t][1] = SprintLabel(sprint_data[t][2])

(***************************************************************************)
(* C8: a second parse_tasks call on the same content returns the same task *)
(* list and the same edge list (same order, same multiplicity) as the      *)
(* first: the first call leaves nothing behind that the second reads.      *)
(***************************************************************************)
C8_ParseTwiceSame ==
    second.calls = 1 =>
        /\ second.tasks = tasks
        /\ second.dependencies = dependencies

C8_Witness ==
    /\ second.calls = 1
    /\ Len(second.dependencies) >= 2
    /\ Len(second.tasks) >= 2

(***************************************************************************)
(* C9, as stated: the nodes of G are all the tasks named in either CSV,    *)
(* and its edges are the parsed dependency edges.  The code violates the   *)
(* first half: a task named only in the sprint file, or only as the first  *)
(* field of a row without a blocking field, is no node.                    *)
(***************************************************************************)
RECURSIVE FieldsOf(_)
\* every non-empty field of the rows
FieldsOf(rows) ==
    IF rows = <<>> THEN {}
    ELSE {f \in SeqToSet(Head(rows)) : f # <<>>} \cup FieldsOf(Tail(rows))

\* the tasks named in the dependency CSV or in the first column of the sprint CSV
MentionedTasks ==
    FieldsOf(DepRowsOnDisk)
    \cup {SprintRowsOnDisk[i][1] : i \in {j \in 1..Len(SprintRowsOnDisk) :
                                             SprintRowsOnDisk[j] # <<>>}}

\* C9 as stated: nodes = tasks named in either CSV, edges = parsed edges
C9_NodesAreAllMentionedTasks ==
    GraphBuilt =>
        /\ SeqToSet(G.nodes) = MentionedTasks
        /\ SeqToSet(Edges(G)) = SeqToSet(dependencies)

(***************************************************************************)
(* C9, amended: the nodes of G are exactly the endpoints of the parsed     *)
(* dependency edges (the task list parse_tasks returned), each once, and   *)
(* its edges are exactly the parsed dependency edges, each once.           *)
(***************************************************************************)
C9_NodesAreEdgeEndpoints ==
    GraphBuilt =>
        /\ SeqToSet(G.nodes) = Endpoints(dependencies)
        /\ SeqToSet(G.nodes) = frame.tasks
        /\ Cardinality(SeqToSet(G.nodes)) = Len(G.nodes)
        /\ SeqToSet(Edges(G)) = SeqToSet(dependencies)
        /\ Cardinality(SeqToSet(Edges(G))) = Len(Edges(G))

C9_Witness ==
    /\ pc = "done"
    /\ Len(G.nodes) = 1
    /\ Len(Edges(G)) = 1
    /\ \E t \in MentionedTasks : ~SeqHas(G.nodes, t)

(***************************************************************************)
(* C10: the sentinel index of a task without a sprint record is strictly   *)
(* greater than the sprint index of every task that has a record.  The     *)
(* code violates it for a sprint table that holds SP999 or a later sprint. *)
(***************************************************************************)
C10_SentinelAfterAllSprints ==
    LookedUp =>
        \A u \in DOMAIN task_sprint_map :
            ~HasRecord(u) =>
                \A t \in DOMAIN sprint_data : task_sprint_map[u] > sprint_data[t][2]

====
